---- MODULE Spec2Model ----
(***************************************************************************)
(* AirVoice overlay: the OverlayStateMachine (state_machine.py), the       *)
(* OverlayWindow that owns it and its auto-hide timer (overlay_window.py), *)
(* and the AirVoiceOverlay application handlers with the reset timer and   *)
(* the command router (main.py, commands.py), and the VoiceInputWorker     *)
(* with its capture loop (voice_input.py).                                 *)
(*                                                                         *)
(* Specifications:                                                     *)
(*   SpecSM  the OverlayStateMachine on its own, driven through its public *)
(*           operations with arbitrary listeners registered;               *)
(*   Spec    the application: the window's listener is the only listener,  *)
(*           events arrive from the voice manager, the mouse, the two      *)
(*           single-shot timers and the window's public API, and time      *)
(*           passes;                                                       *)
(*   SpecVoice  the VoiceInputWorker: start() and stop() on the main       *)
(*           thread, the capture loop of every thread start() has created, *)
(*           the audio callback, the transcription call, and the delivery  *)
(*           of the worker's signals to the slots main.py connects;        *)
(*   SpecStopFair  SpecVoice over fewer frames, with every capture loop    *)
(*           scheduled fairly;                                             *)
(*   SpecSession  one listening session of the worker that is never        *)
(*           stopped and whose stream never fails, over more frames.       *)
(*                                                                         *)
(* Optional values (Python None / a value) are None == <<>> and            *)
(* Some(x) == <<x>>.  Audio levels are integers in tenths (10 is 1.0).     *)
(* Texts and messages are sequences of words.  Times are milliseconds.     *)
(* An audio frame is its sequence number and its RMS in thousandths; the   *)
(* worker's clock counts seconds.                                          *)
(* Painting, window geometry and opacity animation are not modelled.       *)
(***************************************************************************)
EXTENDS Integers, Sequences, FiniteSets, TLC

VARIABLES
    state,              \* OverlayStateMachine._state
    previous_state,     \* OverlayStateMachine._previous_state
    listeners,          \* OverlayStateMachine._listeners, in registration order
    action_data,        \* OverlayStateMachine.action_data
    gesture_data,       \* OverlayStateMachine.gesture_data
    active_key,         \* OverlayStateMachine.keypad_data.active_key
    audio_level,        \* OverlayStateMachine.audio_level
    keypad_rows,        \* OverlayStateMachine.keypad_data.rows
    accessibility_mode, \* OverlayWindow.config.accessibility_mode
    action_timer,       \* OverlayWindow.action_timer: remaining ms of each pending firing
    release_pending,    \* pending QTimer.singleShot(150, update_keypad(None)) callbacks
    reset_timer,        \* AirVoiceOverlay.reset_timer: remaining ms of each pending firing
    op,                 \* history: the operation that ran last, the state it ran in, its arguments
    calls,              \* history: the listener invocations made by the last operation
    escaped,            \* history: an exception left the last operation
    built,              \* history: the payload records the last operation constructed
    ntrans,             \* history: actual transitions since the listener list last changed
    ncalls,             \* history: invocations of each listener since the list last changed
    since_enter,        \* history: ms since the state last became Action from another state
    since_reset,        \* history: ms since reset_timer was last started
    reset_delay,        \* history: the delay reset_timer was last started with
    is_running,         \* VoiceInputWorker._is_running
    stop_event,         \* VoiceInputWorker._stop_event
    audio_queue,        \* VoiceInputWorker._audio_queue
    thread,             \* VoiceInputWorker._thread: None, or the index in loops of the thread
    loops,              \* the threads start() has created, each with the locals of its _run_loop
    joining,            \* the main thread is inside stop(), in thread.join(timeout=1.0)
    signals,            \* emissions of the capture threads queued for the main thread
    emits,              \* history: the signals emitted by the last step
    captured,           \* history: frames the audio callback has queued so far
    finalized,          \* history: the utterances finalized so far, in order
    handed,             \* history: the utterances given to recognize_google so far, in order
    returned            \* history: recognize_google calls that have returned or raised

smvars == <<state, previous_state, listeners, action_data, gesture_data, active_key, audio_level,
           keypad_rows>>
appvars == <<accessibility_mode, action_timer, release_pending, reset_timer>>
histvars == <<op, calls, escaped, built>>
countvars == <<ntrans, ncalls>>
timevars == <<since_enter, since_reset, reset_delay>>
workervars == <<is_running, stop_event, audio_queue, thread, loops, joining, signals>>
voicehist == <<emits, captured, finalized, handed, returned>>
voicevars == <<workervars, voicehist>>
vars == <<smvars, appvars, histvars, countvars, timevars, voicevars>>

----
\* Bounds of the model

MaxListeners == 2
MaxTransitions == 3
\* registrations in the listener list, in SpecListeners
MaxRegistrations == 3
MaxPendingRelease == 1
\* commands and key presses that arrive, in SpecQuiet
MaxEvents == 3
MaxFrames == 4
MaxStarts == 2
MaxSessionFrames == 6
MaxStopFrames == 3

----
\* Program constants

ToastDisplayMs == 2000
ResetDelayMs == 3000
CloseResetMs == 100
LevelOne == 10

TickMs == ToastDisplayMs \div 2

RmsOne == 1000
SilenceThreshold == 10
SilenceDuration == 3
LevelGain == 10
QueueGetTimeoutMs == 500
JoinTimeoutMs == 1000

----
\* Values

None == <<>>
Some(x) == <<x>>

OverlayState == {"IDLE", "LISTENING", "PROCESSING", "ACTION", "GESTURE", "KEYPAD"}
AccessibilityMode == {"NORMAL", "MINIMAL", "AUDIO_ONLY"}

ActionData(message, icon) == [message |-> message, icon |-> icon]
GestureData(hand_landmarks, active_finger, hover_key) ==
    [hand_landmarks |-> hand_landmarks, active_finger |-> active_finger, hover_key |-> hover_key]

\* A row of the keypad is written as the codes of its keys, in order, in one
\* string with a blank between two codes; the keys whose codes are a backquote,
\* a backslash and a quote are written by these names.

\* KeypadData.rows as the default factory of the field builds it
DefaultRows ==
    << "backquote 1 2 3 4 5 6 7 8 9 0 - = backspace",
       "tab m w e r t y u i o p [ ] backslash" >>

\* KeypadData.rows as _init_layout builds it
FullRows ==
    << "backquote 1 2 3 4 5 6 7 8 9 0 - = backspace",
       "tab q w e r t y u i o p [ ] backslash",
       "capslock a s d f g h j k l ; quote enter",
       "shift z x c v b n m , . / shift",
       "ctrl win alt space alt fn ctrl" >>

\* KeypadData.__post_init__: the layout is built only when rows is empty
PostInit(rows) == IF rows = <<>> THEN FullRows ELSE rows

\* KeypadData(): the rows of a new record
NewKeypadRows == PostInit(DefaultRows)

Min(S) == CHOOSE x \in S : \A y \in S : x <= y
Lesser(a, b) == IF a <= b THEN a ELSE b
Greater(a, b) == IF a >= b THEN a ELSE b

\* Inputs
ListenerIds == {"counting", "raising"}
ActionArgs == {<<<<"Done">>, None>>, <<<<"Opening", "Chrome...">>, Some("mic")>>}
Levels == {0, 15}
UpdateLevels == {-5, 0, 15}
Keys == {None, Some("a")}
GestureArgs == {<<None, None, None>>,
                <<Some(<<"p1">>), Some(1), Some("a")>>,
                <<None, None, Some("b")>>}
Texts == {<<"open", "chrome">>, <<"Show", "Keypad">>, <<"hello">>}
\* Inputs of the application's events
ToastMessages == {<<"Done">>}
ToastIcons == {Some("mic")}
MeterLevels == {15}
HoverKeys == {Some("a")}
HitKeys == {None, Some("a")}

----
\* The application as one record: the fields the operations read and write,
\* plus the trace of the operation under way (calls, raised, starts, built).

Self ==
    [state |-> state, previous_state |-> previous_state, listeners |-> listeners,
     action_data |-> action_data, gesture_data |-> gesture_data,
     active_key |-> active_key, audio_level |-> audio_level,
     keypad_rows |-> keypad_rows,
     accessibility_mode |-> accessibility_mode, action_timer |-> action_timer,
     release_pending |-> release_pending, reset_timer |-> reset_timer,
     calls |-> <<>>, raised |-> FALSE, starts |-> <<>>, built |-> <<>>]

----
\* QTimer, single shot

\* QTimer.start(ms): a running timer is stopped and restarted.
TimerStart(pending, ms) == {ms}

\* The timer's firing is delivered: a single-shot timer is no longer pending.
TimerFired(pending) == pending \ {0}

----
\* OverlayWindow._on_state_changed (the listener the window registers)

OnStateChanged(w, old_state, new_state) ==
    IF w.accessibility_mode = "AUDIO_ONLY"
    THEN w
    ELSE IF new_state = "ACTION"
         THEN [w EXCEPT !.action_timer = TimerStart(@, ToastDisplayMs)]
         ELSE w

----
\* OverlayStateMachine

ReentrantIds == {"forwarding", "leaving", "inviting"}

AddListener(w, callback) == [w EXCEPT !.listeners = Append(@, callback)]

RECURSIVE RemoveFirst(_, _)
RemoveFirst(s, x) ==
    IF s = <<>> THEN <<>>
    ELSE IF Head(s) = x THEN Tail(s)
    ELSE <<Head(s)>> \o RemoveFirst(Tail(s), x)

\* remove_listener that drops every registration of the callback
RemoveListenerEvery(w, callback) ==
    [w EXCEPT !.listeners = SelectSeq(@, LAMBDA x : x # callback)]

RemoveListener(w, callback) == [w EXCEPT !.listeners = RemoveFirst(@, callback)]

RECURSIVE TransitionTo(_, _)

\* One listener invocation: listener(old_state, new_state).  The listeners:
\*   window      OverlayWindow._on_state_changed
\*   counting    returns
\*   raising     raises an exception
\*   forwarding  calls set_idle() when the new state is Processing
\*   leaving     calls remove_listener on itself
\*   inviting    calls add_listener(counting) unless counting is registered
CallListener(w, listener, old_state, new_state) ==
    LET called == [w EXCEPT !.calls = Append(@,
                      [listener |-> listener, old |-> old_state, new |-> new_state,
                       state |-> w.state, previous_state |-> w.previous_state])]
    IN  CASE listener = "window" -> OnStateChanged(called, old_state, new_state)
          [] listener = "raising" -> [called EXCEPT !.raised = TRUE]
          [] listener = "forwarding" ->
                IF new_state = "PROCESSING" THEN TransitionTo(called, "IDLE") ELSE called
          [] listener = "leaving" -> RemoveListener(called, "leaving")
          [] listener = "inviting" ->
                IF \E i \in 1..Len(called.listeners) : called.listeners[i] = "counting"
                THEN called ELSE AddListener(called, "counting")
          [] OTHER -> called

\* for listener in self._listeners: try: listener(old, new) except Exception: print
RECURSIVE NotifyFrom(_, _, _, _)
NotifyFrom(w, old_state, new_state, i) ==
    IF i > Len(w.listeners)
    THEN w
    ELSE LET r == CallListener(w, w.listeners[i], old_state, new_state)
         IN  NotifyFrom([r EXCEPT !.raised = FALSE], old_state, new_state, i + 1)

\* The same loop without the try/except: the first exception ends it.
RECURSIVE NotifyFromNoCatch(_, _, _, _)
NotifyFromNoCatch(w, old_state, new_state, i) ==
    IF i > Len(w.listeners)
    THEN w
    ELSE LET r == CallListener(w, w.listeners[i], old_state, new_state)
         IN  IF r.raised THEN r ELSE NotifyFromNoCatch(r, old_state, new_state, i + 1)

NotifyListenersNoCatch(w, old_state, new_state) == NotifyFromNoCatch(w, old_state, new_state, 1)

NotifyListeners(w, old_state, new_state) == NotifyFrom(w, old_state, new_state, 1)

\* transition_to without the new_state != self._state test.
TransitionToUnguarded(w, new_state) ==
    NotifyListeners([w EXCEPT !.previous_state = w.state, !.state = new_state],
                    w.state, new_state)

\* transition_to notifying before it assigns.
TransitionToNotifyFirst(w, new_state) ==
    IF new_state # w.state
    THEN LET n == NotifyListeners(w, w.state, new_state)
         IN  [n EXCEPT !.previous_state = w.state, !.state = new_state]
    ELSE w

\* transition_to that does not record the state it leaves.
TransitionToForgetful(w, new_state) ==
    IF new_state # w.state
    THEN NotifyListeners([w EXCEPT !.state = new_state], w.state, new_state)
    ELSE w

TransitionTo(w, new_state) ==
    IF new_state # w.state
    THEN LET assigned == [w EXCEPT !.previous_state = w.state, !.state = new_state]
         IN  NotifyListeners(assigned, assigned.previous_state, assigned.state)
    ELSE w

SetIdle(w) == TransitionTo(w, "IDLE")

SetListening(w, level) == TransitionTo([w EXCEPT !.audio_level = level], "LISTENING")

\* update_audio_level that stores the level as given
UpdateAudioLevelUnclamped(w, level) == [w EXCEPT !.audio_level = level]

UpdateAudioLevel(w, level) ==
    [w EXCEPT !.audio_level = Greater(0, Lesser(LevelOne, level))]

SetProcessing(w) == TransitionTo(w, "PROCESSING")

\* set_action that leaves the payload alone when the state is already Action.
SetActionKeepPayload(w, message, icon) ==
    IF w.state = "ACTION" THEN w
    ELSE TransitionTo([w EXCEPT !.action_data = ActionData(message, icon),
                                !.built = Append(@, "ActionData")], "ACTION")

\* set_action that keeps the icon of the previous toast when none is given
SetActionKeepIcon(w, message, icon) ==
    TransitionTo([w EXCEPT !.action_data =
                      ActionData(message, IF icon = None THEN @.icon ELSE icon),
                           !.built = Append(@, "ActionData")], "ACTION")

SetAction(w, message, icon) ==
    TransitionTo([w EXCEPT !.action_data = ActionData(message, icon),
                           !.built = Append(@, "ActionData")], "ACTION")

\* landmarks or []
OrEmpty(landmarks) == IF landmarks = None \/ landmarks[1] = <<>> THEN <<>> ELSE landmarks[1]

SetGesture(w, landmarks, active_finger, hover_key) ==
    TransitionTo([w EXCEPT !.gesture_data =
                      GestureData(OrEmpty(landmarks), active_finger, hover_key),
                           !.built = Append(@, "GestureData")],
                 "GESTURE")

\* update_gesture that stores a new record made of its arguments
UpdateGestureReplace(w, landmarks, active_finger, hover_key) ==
    [w EXCEPT !.gesture_data = GestureData(OrEmpty(landmarks), active_finger, hover_key),
              !.built = Append(@, "GestureData")]

UpdateGesture(w, landmarks, active_finger, hover_key) ==
    LET g0 == w.gesture_data
        g1 == IF landmarks # None THEN [g0 EXCEPT !.hand_landmarks = landmarks[1]] ELSE g0
        g2 == IF active_finger # None THEN [g1 EXCEPT !.active_finger = active_finger] ELSE g1
        g3 == IF hover_key # None THEN [g2 EXCEPT !.hover_key = hover_key] ELSE g2
    IN  [w EXCEPT !.gesture_data = g3]

SetKeypad(w, key) == TransitionTo([w EXCEPT !.active_key = key], "KEYPAD")

\* update_keypad that goes through set_keypad
UpdateKeypadBySet(w, key) == SetKeypad(w, key)

UpdateKeypad(w, key) == [w EXCEPT !.active_key = key]

----
\* CommandProcessor (the command router)

AppMap == {<<"vscode">>, <<"visual", "studio", "code">>, <<"notepad">>, <<"calculator">>,
           <<"chrome">>, <<"edge">>, <<"explorer">>, <<"cmd">>, <<"terminal">>,
           <<"settings">>, <<"whatsapp">>, <<"spotify">>}

\* str.lower() on one word
LowerWord(word) ==
    CASE word = "Show" -> "show"
      [] word = "Keypad" -> "keypad"
      [] word = "Open" -> "open"
      [] OTHER -> word

\* text.lower().strip()
Lower(text) == [i \in 1..Len(text) |-> LowerWord(text[i])]

\* text.startswith(word + " ")
StartsWith(text, word) == Len(text) >= 2 /\ text[1] = word

\* word in text
Contains(text, word) == \E i \in 1..Len(text) : text[i] = word

\* text.replace(word + " ", "", 1): the first occurrence that a word follows
RECURSIVE ReplaceFirst(_, _)
ReplaceFirst(text, word) ==
    IF Len(text) < 2 THEN text
    ELSE IF Head(text) = word THEN Tail(text)
    ELSE <<Head(text)>> \o ReplaceFirst(Tail(text), word)

\* _open_app: fails is whether launching raised (caught inside _open_app)
OpenApp(app_name, fails) ==
    IF app_name \in AppMap
    THEN IF fails
         THEN [kind |-> "error", message |-> <<"Failed", "to", "open">> \o app_name]
         ELSE [kind |-> "opened", message |-> <<"Opening">> \o app_name \o <<"...">>]
    ELSE IF fails
         THEN [kind |-> "error", message |-> <<"Could", "not", "find">> \o app_name]
         ELSE [kind |-> "opened",
               message |-> <<"Searching", "&", "Opening">> \o app_name \o <<"...">>]

WebSearch(query) == [kind |-> "searched", message |-> <<"Searching:">> \o query]

TypeText(text) == [kind |-> "typed", message |-> <<"Typed:">> \o text]

\* CommandProcessor.process
Process(text0, fails) ==
    LET text == Lower(text0)
    IN  IF StartsWith(text, "open") THEN OpenApp(Tail(text), fails)
        ELSE IF StartsWith(text, "search") \/ StartsWith(text, "google")
             THEN WebSearch(ReplaceFirst(ReplaceFirst(text, "search"), "google"))
        ELSE IF StartsWith(text, "type") \/ StartsWith(text, "write")
             THEN TypeText(ReplaceFirst(ReplaceFirst(text, "type"), "write"))
        ELSE IF Contains(text, "keypad")
             THEN [kind |-> "keypad", message |-> <<"Opening", "Keypad...">>]
        ELSE [kind |-> "recognized", message |-> <<"Heard:">> \o text]

----
\* OverlayWindow: public API and timer slot

ShowAction(w, message, icon) == SetAction(w, message, icon)
StartListening(w) == SetListening(w, 0)
StartProcessing(w) == SetProcessing(w)
ShowGesture(w, hover_key) == SetGesture(w, None, None, hover_key)
ShowKeypad(w, key) == SetKeypad(w, key)
ReturnToIdle(w) == SetIdle(w)
SetAccessibilityMode(w, mode) == [w EXCEPT !.accessibility_mode = mode]

\* _hide_action without the test of the current state.
HideActionUnguarded(w) == SetIdle(w)

\* OverlayWindow._hide_action, the slot of action_timer.timeout
HideAction(w) == IF w.state = "ACTION" THEN SetIdle(w) ELSE w

----
\* AirVoiceOverlay: handlers and reset timer

\* reset_timer.start(ms)
StartResetTimer(w, ms) ==
    [w EXCEPT !.reset_timer = TimerStart(@, ms), !.starts = Append(@, ms)]

\* _on_text_recognized that shows every command, a keypad request too, as a toast.
OnTextRecognizedNoKeypad(w, text, fails) ==
    StartResetTimer(ShowAction(w, Process(text, fails).message, None), ResetDelayMs)

\* _on_text_recognized that does not start the reset timer.
OnTextRecognizedNoReset(w, text, fails) ==
    LET r == Process(text, fails)
    IN  IF r.kind = "keypad"
        THEN ShowKeypad(w, None)
        ELSE ShowAction(w, r.message, None)

OnTextRecognized(w, text, fails) ==
    LET r == Process(text, fails)
    IN  IF r.kind = "keypad"
        THEN ShowKeypad(w, None)
        ELSE StartResetTimer(ShowAction(w, r.message, None), ResetDelayMs)

\* _on_key_pressed: typing the key is an effect outside the overlay
OnKeyPressed(w, key) ==
    IF key = "C"
    THEN StartResetTimer(ReturnToIdle(w), CloseResetMs)
    ELSE w

\* OverlayWindow.mousePressEvent with the key the click hit (None: no key)
MousePressEvent(w, hit) ==
    IF w.state # "KEYPAD" THEN w
    ELSE IF hit = None THEN w
    ELSE OnKeyPressed([UpdateKeypad(w, hit) EXCEPT !.release_pending = @ + 1], hit[1])

\* _return_to_listening that spares the keypad.
ReturnToListeningGuarded(w) == IF w.state = "KEYPAD" THEN w ELSE StartListening(w)

\* _return_to_listening, the slot of reset_timer.timeout
ReturnToListening(w) == StartListening(w)

OnListeningStarted(w) == StartListening(w)

----
\* Initial states

\* VoiceInputWorker()
InitWorker ==
    /\ is_running = FALSE
    /\ stop_event = FALSE
    /\ audio_queue = <<>>
    /\ thread = None
    /\ loops = <<>>
    /\ joining = FALSE
    /\ signals = <<>>
    /\ emits = <<>>
    /\ captured = 0
    /\ finalized = <<>>
    /\ handed = <<>>
    /\ returned = 0

InitMachine ==
    /\ state = "IDLE"
    /\ previous_state = "IDLE"
    /\ action_data = ActionData(<<>>, None)
    /\ gesture_data = GestureData(<<>>, None, None)
    /\ active_key = None
    /\ audio_level = 0
    /\ keypad_rows = NewKeypadRows
    /\ action_timer = {}
    /\ release_pending = 0
    /\ reset_timer = {}
    /\ op = [name |-> "init", from |-> "IDLE", args |-> <<>>]
    /\ calls = <<>>
    /\ escaped = FALSE
    /\ built = <<>>
    /\ ntrans = 0
    /\ ncalls = [k \in ListenerIds |-> 0]
    /\ since_enter = ToastDisplayMs
    /\ since_reset = ResetDelayMs
    /\ reset_delay = 0
    /\ InitWorker

\* OverlayStateMachine(): no listener yet
InitSM ==
    /\ InitMachine
    /\ listeners = <<>>
    /\ accessibility_mode = "NORMAL"

\* AirVoiceOverlay(): OverlayWindow(config) has registered _on_state_changed
Init ==
    /\ InitMachine
    /\ listeners = <<"window">>
    /\ accessibility_mode \in AccessibilityMode

----
\* The result w of an operation becomes the next state.

Commit(name, args, w) ==
    /\ state' = w.state
    /\ previous_state' = w.previous_state
    /\ listeners' = w.listeners
    /\ action_data' = w.action_data
    /\ gesture_data' = w.gesture_data
    /\ active_key' = w.active_key
    /\ audio_level' = w.audio_level
    /\ keypad_rows' = w.keypad_rows
    /\ accessibility_mode' = w.accessibility_mode
    /\ action_timer' = w.action_timer
    /\ release_pending' = w.release_pending
    /\ reset_timer' = w.reset_timer
    /\ op' = [name |-> name, from |-> state, args |-> args]
    /\ calls' = w.calls
    /\ escaped' = w.raised
    /\ built' = w.built

CallsOf(log, k) == Cardinality({i \in 1..Len(log) : log[i].listener = k})

\* An operation on the state machine alone, counted.
Machine(name, args, w) ==
    /\ ntrans < MaxTransitions
    /\ Commit(name, args, w)
    /\ IF w.listeners # listeners
       THEN /\ ntrans' = 0
            /\ ncalls' = [k \in ListenerIds |-> 0]
       ELSE /\ ntrans' = IF w.state # state THEN ntrans + 1 ELSE ntrans
            /\ ncalls' = [k \in ListenerIds |-> ncalls[k] + CallsOf(w.calls, k)]
    /\ UNCHANGED <<timevars, voicevars>>

\* A slot of the application runs, timed.
Timed(name, args, w) ==
    /\ Commit(name, args, w)
    /\ since_enter' = IF state # "ACTION" /\ w.state = "ACTION" THEN 0 ELSE since_enter
    /\ since_reset' = IF w.starts # <<>> THEN 0 ELSE since_reset
    /\ reset_delay' = IF w.starts # <<>> THEN w.starts[Len(w.starts)] ELSE reset_delay

Slot(name, args, w) ==
    /\ Timed(name, args, w)
    /\ UNCHANGED countvars

\* A command or a key press, counted in ntrans: at most MaxEvents of them arrive.
Arrival(name, args, w) ==
    /\ ntrans < MaxEvents
    /\ Timed(name, args, w)
    /\ ntrans' = ntrans + 1
    /\ UNCHANGED <<ncalls, voicevars>>

\* An event of the application that leaves the voice worker alone.
Event(name, args, w) ==
    /\ Slot(name, args, w)
    /\ UNCHANGED voicevars

----
\* SpecSM: the public operations of OverlayStateMachine

CallAddListenerUpTo(n, cb) ==
    /\ Len(listeners) < n
    /\ ntrans' = 0
    /\ ncalls' = [k \in ListenerIds |-> 0]
    /\ Commit("add_listener", <<cb>>, AddListener(Self, cb))
    /\ UNCHANGED <<timevars, voicevars>>

CallAddListener(cb) == CallAddListenerUpTo(MaxListeners, cb)

CallRemoveListener(cb) ==
    /\ ntrans' = 0
    /\ ncalls' = [k \in ListenerIds |-> 0]
    /\ Commit("remove_listener", <<cb>>, RemoveListener(Self, cb))
    /\ UNCHANGED <<timevars, voicevars>>

CallSetIdle == Machine("set_idle", <<>>, SetIdle(Self))
CallSetListening(level) == Machine("set_listening", <<level>>, SetListening(Self, level))
CallUpdateAudioLevel(level) ==
    Machine("update_audio_level", <<level>>, UpdateAudioLevel(Self, level))
CallSetProcessing == Machine("set_processing", <<>>, SetProcessing(Self))
CallSetAction(a) == Machine("set_action", a, SetAction(Self, a[1], a[2]))
CallSetGesture(g) == Machine("set_gesture", g, SetGesture(Self, g[1], g[2], g[3]))
CallUpdateGesture(g) == Machine("update_gesture", g, UpdateGesture(Self, g[1], g[2], g[3]))
CallSetKeypad(k) == Machine("set_keypad", <<k>>, SetKeypad(Self, k))
CallUpdateKeypad(k) == Machine("update_keypad", <<k>>, UpdateKeypad(Self, k))

NextSM ==
    \/ \E cb \in ListenerIds : CallAddListener(cb)
    \/ \E cb \in ListenerIds : CallRemoveListener(cb)
    \/ CallSetIdle
    \/ \E level \in Levels : CallSetListening(level)
    \/ \E level \in UpdateLevels : CallUpdateAudioLevel(level)
    \/ CallSetProcessing
    \/ \E a \in ActionArgs : CallSetAction(a)
    \/ \E g \in GestureArgs : CallSetGesture(g)
    \/ \E g \in GestureArgs : CallUpdateGesture(g)
    \/ \E k \in Keys : CallSetKeypad(k)
    \/ \E k \in Keys : CallUpdateKeypad(k)

SpecSM == InitSM /\ [][NextSM]_vars

----
\* SpecKeypad: the keypad's operations and the painting of the window

\* KeypadRenderer.render: the layout is built when rows is empty or has one row
RenderKeypad(w) ==
    IF w.keypad_rows = <<>> \/ Len(w.keypad_rows) < 2
    THEN [w EXCEPT !.keypad_rows = FullRows]
    ELSE w

\* OverlayWindow.paintEvent: nothing in audio-only mode, the idle dot in minimal
\* mode, otherwise the renderer of the current state
PaintEventOf(w) ==
    IF w.accessibility_mode = "AUDIO_ONLY" THEN w
    ELSE IF w.accessibility_mode = "MINIMAL" THEN w
    ELSE IF w.state = "KEYPAD" THEN RenderKeypad(w)
    ELSE w

PaintEvent ==
    /\ op.name # "paintEvent"
    /\ Commit("paintEvent", <<>>, PaintEventOf(Self))
    /\ UNCHANGED <<countvars, timevars, voicevars>>

InitKeypad ==
    /\ InitMachine
    /\ listeners = <<>>
    /\ accessibility_mode \in AccessibilityMode

NextKeypad ==
    \/ \E cb \in ListenerIds : CallAddListener(cb)
    \/ CallSetIdle
    \/ \E a \in ActionArgs : CallSetAction(a)
    \/ \E k \in Keys : CallSetKeypad(k)
    \/ \E k \in Keys : CallUpdateKeypad(k)
    \/ PaintEvent

SpecKeypad == InitKeypad /\ [][NextKeypad]_vars

----
\* SpecListeners: registrations of the same callback, and transitions

RegisterListener(cb) == CallAddListenerUpTo(MaxRegistrations, cb)

NextListeners ==
    \/ \E cb \in ListenerIds : RegisterListener(cb)
    \/ \E cb \in ListenerIds : CallRemoveListener(cb)
    \/ CallSetIdle
    \/ \E level \in Levels : CallSetListening(level)
    \/ \E k \in Keys : CallSetKeypad(k)

SpecListeners == InitSM /\ [][NextListeners]_vars

----
\* SpecReentrant: listeners that call the state machine from their callback

\* An operation on the state machine, not counted.
Uncounted(name, args, w) ==
    /\ Commit(name, args, w)
    /\ UNCHANGED <<countvars, timevars, voicevars>>

NestedSetIdle == Uncounted("set_idle", <<>>, SetIdle(Self))
NestedSetListening(level) == Uncounted("set_listening", <<level>>, SetListening(Self, level))
NestedSetProcessing == Uncounted("set_processing", <<>>, SetProcessing(Self))

NextReentrant ==
    \/ \E cb \in ReentrantIds \cup {"counting"} : CallAddListener(cb)
    \/ \E cb \in ReentrantIds \cup {"counting"} : CallRemoveListener(cb)
    \/ NestedSetIdle
    \/ \E level \in Levels : NestedSetListening(level)
    \/ NestedSetProcessing

SpecReentrant == InitSM /\ [][NextReentrant]_vars

----
\* Spec: the application's events

\* voice_manager.listening_started
ListeningStarted == Event("listening_started", <<>>, OnListeningStarted(Self))

\* voice_manager.text_recognized
TextRecognized(text, fails) ==
    LET r == Process(text, fails)
    IN  Event("text_recognized", <<r.kind, r.message>>, OnTextRecognized(Self, text, fails))

\* voice_manager.audio_level_changed -> OverlayWindow.update_audio_level
AudioLevelChanged(level) ==
    Event("update_audio_level", <<level>>, UpdateAudioLevel(Self, level))

MousePress(hit) ==
    /\ release_pending < MaxPendingRelease
    /\ Event("mouse_press", <<hit>>, MousePressEvent(Self, hit))

\* the QTimer.singleShot(150, ...) of mousePressEvent fires
KeyRelease ==
    /\ release_pending > 0
    /\ Event("key_release", <<>>,
             [UpdateKeypad(Self, None) EXCEPT !.release_pending = @ - 1])

\* action_timer.timeout
ActionTimeout ==
    /\ 0 \in action_timer
    /\ Event("hide_action", <<>>,
             HideAction([Self EXCEPT !.action_timer = TimerFired(@)]))

\* reset_timer.timeout
ResetTimeout ==
    /\ 0 \in reset_timer
    /\ Event("return_to_listening", <<>>,
             ReturnToListening([Self EXCEPT !.reset_timer = TimerFired(@)]))

\* Time passes, up to the next firing due; a firing that is due is delivered first.
Tick ==
    LET pending == action_timer \cup reset_timer
        d == Min({TickMs} \cup pending)
    IN  /\ 0 \notin pending
        /\ action_timer' = {t - d : t \in action_timer}
        /\ reset_timer' = {t - d : t \in reset_timer}
        /\ since_enter' = Lesser(since_enter + d, ToastDisplayMs)
        /\ since_reset' = Lesser(since_reset + d, ResetDelayMs)
        /\ op' = [name |-> "tick", from |-> state, args |-> <<d>>]
        /\ calls' = <<>>
        /\ escaped' = FALSE
        /\ built' = <<>>
        /\ UNCHANGED <<smvars, accessibility_mode, release_pending, reset_delay, countvars, voicevars>>

\* The window's public API, from any caller
ApiShowAction(m, i) == Event("show_action", <<m, i>>, ShowAction(Self, m, i))
ApiStartProcessing == Event("start_processing", <<>>, StartProcessing(Self))
ApiShowGesture(h) == Event("show_gesture", <<h>>, ShowGesture(Self, h))
ApiReturnToIdle == Event("return_to_idle", <<>>, ReturnToIdle(Self))
ApiSetAccessibilityMode(mode) ==
    Event("set_accessibility_mode", <<mode>>, SetAccessibilityMode(Self, mode))

Next ==
    \/ ListeningStarted
    \/ \E text \in Texts, fails \in BOOLEAN : TextRecognized(text, fails)
    \/ \E level \in MeterLevels : AudioLevelChanged(level)
    \/ \E hit \in HitKeys : MousePress(hit)
    \/ KeyRelease
    \/ ActionTimeout
    \/ ResetTimeout
    \/ Tick
    \/ \E m \in ToastMessages, i \in ToastIcons : ApiShowAction(m, i)
    \/ ApiStartProcessing
    \/ \E h \in HoverKeys : ApiShowGesture(h)
    \/ ApiReturnToIdle
    \/ \E mode \in AccessibilityMode : ApiSetAccessibilityMode(mode)

Spec == Init /\ [][Next]_vars

----
\* SpecQuiet: a few commands and key presses arrive, then the timers run on

Command(text, fails) ==
    LET r == Process(text, fails)
    IN  Arrival("text_recognized", <<r.kind, r.message>>, OnTextRecognized(Self, text, fails))

KeyPress(hit) ==
    /\ release_pending < MaxPendingRelease
    /\ Arrival("mouse_press", <<hit>>, MousePressEvent(Self, hit))

NextQuiet ==
    \/ \E text \in Texts, fails \in BOOLEAN : Command(text, fails)
    \/ \E hit \in HitKeys : KeyPress(hit)
    \/ \E level \in MeterLevels : AudioLevelChanged(level)
    \/ KeyRelease
    \/ ActionTimeout
    \/ ResetTimeout
    \/ Tick

\* Qt's event loop keeps running: time passes and a timer that is due fires.
SpecQuiet ==
    /\ Init
    /\ [][NextQuiet]_vars
    /\ WF_vars(Tick)
    /\ WF_vars(ActionTimeout)
    /\ WF_vars(ResetTimeout)

----
\* The voice worker (voice_input.py)

\* RMS of a frame, in thousandths: at the threshold (0.01), and loud (0.15)
FrameRms == {SilenceThreshold, 15 * SilenceThreshold}
Outcomes == {"text", "empty", "unknown", "request_error", "error"}
RecognizedText == <<"hello">>
Threads == 1..MaxStarts
WorkerSignals == {"audio_level_changed", "text_recognized", "error_occurred"}

\* a block of samples, by its sequence number and its RMS
Frame(n, rms) == [id |-> n, rms |-> rms]

\* a signal emitted by thread `by` (0 is the main thread)
Emission(signal, arg, by) == [signal |-> signal, arg |-> arg, by |-> by]

\* float(rms * 10.0), as an audio level in tenths
LevelOf(data) == (data.rms * LevelGain * LevelOne) \div RmsOne

\* audio_level_changed emitted only for a frame above the silence threshold
LevelEmitsWhenLoud(data, by) ==
    IF data.rms > SilenceThreshold
    THEN <<Emission("audio_level_changed", LevelOf(data), by)>>
    ELSE <<>>

\* self.audio_level_changed.emit(float(rms * 10.0)), by thread `by`
LevelEmits(data, by) == <<Emission("audio_level_changed", LevelOf(data), by)>>

\* The locals of _run_loop when the thread starts.  silence_start_time is None
\* or Some(a), a the seconds elapsed since the time.time() it recorded.
\* processed, onset and since are history: every frame the loop has classified,
\* the position in processed of the frame that began the current speech (0 if
\* none), and the number of the last frame that was waiting in the queue at the
\* start() of the thread (0 if none was).
NewLoop ==
    [pc |-> "open", speech_buffer |-> <<>>, is_speaking |-> FALSE,
     silence_start_time |-> None, processed |-> <<>>, onset |-> 0, since |-> 0]

\* the number of the last frame in the queue, 0 when the queue is empty
LastQueued == IF audio_queue = <<>> THEN 0 ELSE audio_queue[Len(audio_queue)].id

StreamOpen(l) == l.pc \in {"check", "get", "transcribing"}
Alive(l) == l.pc # "done"

\* The classification of one frame; pc becomes "finalize" where the code calls
\* _process_speech(speech_buffer).
VadDropOnset(l, data) ==
    IF data.rms > SilenceThreshold
    THEN [l EXCEPT !.is_speaking = TRUE, !.silence_start_time = None,
                   !.speech_buffer = IF l.is_speaking THEN Append(@, data) ELSE @]
    ELSE IF l.is_speaking
         THEN LET b == [l EXCEPT !.speech_buffer = Append(@, data)]
              IN  IF l.silence_start_time = None
                  THEN [b EXCEPT !.silence_start_time = Some(0)]
                  ELSE IF l.silence_start_time[1] > SilenceDuration
                       THEN [b EXCEPT !.pc = "finalize"]
                       ELSE b
         ELSE l

VadAtLeast(l, data) ==
    IF data.rms > SilenceThreshold
    THEN [l EXCEPT !.is_speaking = TRUE, !.silence_start_time = None,
                   !.speech_buffer = Append(@, data)]
    ELSE IF l.is_speaking
         THEN LET b == [l EXCEPT !.speech_buffer = Append(@, data)]
              IN  IF l.silence_start_time = None
                  THEN [b EXCEPT !.silence_start_time = Some(0)]
                  ELSE IF l.silence_start_time[1] >= SilenceDuration
                       THEN [b EXCEPT !.pc = "finalize"]
                       ELSE b
         ELSE l

VadKeepTimer(l, data) ==
    IF data.rms > SilenceThreshold
    THEN [l EXCEPT !.is_speaking = TRUE, !.speech_buffer = Append(@, data)]
    ELSE IF l.is_speaking
         THEN LET b == [l EXCEPT !.speech_buffer = Append(@, data)]
              IN  IF l.silence_start_time = None
                  THEN [b EXCEPT !.silence_start_time = Some(0)]
                  ELSE IF l.silence_start_time[1] > SilenceDuration
                       THEN [b EXCEPT !.pc = "finalize"]
                       ELSE b
         ELSE l

VadDropSilence(l, data) ==
    IF data.rms > SilenceThreshold
    THEN [l EXCEPT !.is_speaking = TRUE, !.silence_start_time = None,
                   !.speech_buffer = Append(@, data)]
    ELSE IF l.is_speaking
         THEN IF l.silence_start_time = None
              THEN [l EXCEPT !.silence_start_time = Some(0)]
              ELSE IF l.silence_start_time[1] > SilenceDuration
                   THEN [l EXCEPT !.pc = "finalize"]
                   ELSE l
         ELSE l

Vad(l, data) ==
    IF data.rms > SilenceThreshold
    THEN [l EXCEPT !.is_speaking = TRUE, !.silence_start_time = None,
                   !.speech_buffer = Append(@, data)]
    ELSE IF l.is_speaking
         THEN LET b == [l EXCEPT !.speech_buffer = Append(@, data)]
              IN  IF l.silence_start_time = None
                  THEN [b EXCEPT !.silence_start_time = Some(0)]
                  ELSE IF l.silence_start_time[1] > SilenceDuration
                       THEN [b EXCEPT !.pc = "finalize"]
                       ELSE b
         ELSE l

\* _process_speech up to the call of recognize_google
ProcessSpeechSkip(l) == [l EXCEPT !.pc = "return"]

ProcessSpeech(l) ==
    IF l.speech_buffer = <<>>
    THEN [l EXCEPT !.pc = "return"]
    ELSE [l EXCEPT !.pc = "transcribing"]

\* what _process_speech emits for the outcome of recognize_google
RecognitionEmitsLoud(outcome, by) ==
    CASE outcome = "text" -> <<Emission("text_recognized", RecognizedText, by)>>
      [] outcome = "empty" -> <<>>
      [] outcome = "unknown" -> <<Emission("error_occurred", "Unknown", by)>>
      [] outcome = "request_error" -> <<Emission("error_occurred", "API Error", by)>>
      [] outcome = "error" -> <<Emission("error_occurred", "Recognition Error", by)>>

RecognitionEmits(outcome, by) ==
    CASE outcome = "text" -> <<Emission("text_recognized", RecognizedText, by)>>
      [] outcome = "empty" -> <<>>
      [] outcome = "unknown" -> <<>>
      [] outcome = "request_error" -> <<Emission("error_occurred", "API Error", by)>>
      [] outcome = "error" -> <<Emission("error_occurred", "Recognition Error", by)>>

\* the three assignments after _process_speech has returned
ResetSegmenter(l) ==
    [l EXCEPT !.speech_buffer = <<>>, !.is_speaking = FALSE,
              !.silence_start_time = None, !.onset = 0, !.pc = "check"]

\* the thread leaves _run_loop: its locals are gone
Exit(l) == [NewLoop EXCEPT !.pc = "done"]

\* thread.join(timeout=1.0) can give up on a thread that is inside a call
\* with no bound on its duration, or inside a wait at least as long as the join's
OutlastsJoin(l) ==
    \/ l.pc = "transcribing"
    \/ l.pc = "get" /\ QueueGetTimeoutMs >= JoinTimeoutMs

\* A delivery and a later step of a capture thread or of the audio callback
\* change different variables and commute, so a delivery that is due is taken
\* before those step again; the order of a delivery and the main thread's own
\* start() and stop() is left open.
DeliveriesDone == joining \/ signals = <<>>

\* A step of the worker that runs no slot of the application.
Worker(name, args) ==
    /\ op' = [name |-> name, from |-> state, args |-> args]
    /\ calls' = <<>>
    /\ escaped' = FALSE
    /\ built' = <<>>
    /\ UNCHANGED <<smvars, appvars, countvars, timevars>>

\* VoiceInputWorker.start(), with the slot of listening_started run in place;
\* since is the history the new loop keeps of the frames waiting at this start()
StartSince(n, since) ==
    /\ ~joining
    /\ IF is_running
       THEN /\ Worker("start", <<FALSE>>)
            /\ emits' = <<>>
            /\ UNCHANGED <<workervars, captured, finalized, handed, returned>>
       ELSE /\ Len(loops) < n
            /\ is_running' = TRUE
            /\ stop_event' = FALSE
            /\ loops' = Append(loops, [NewLoop EXCEPT !.since = since])
            /\ thread' = Some(Len(loops) + 1)
            /\ emits' = <<Emission("listening_started", <<>>, 0)>>
            /\ Slot("start", <<TRUE>>, OnListeningStarted(Self))
            /\ UNCHANGED <<audio_queue, joining, signals, captured, finalized, handed, returned>>

StartUpTo(n) == StartSince(n, LastQueued)

Start == StartUpTo(MaxStarts)

\* VoiceInputWorker.stop() up to the join
StopCall ==
    /\ ~joining
    /\ is_running' = FALSE
    /\ stop_event' = TRUE
    /\ joining' = (thread # None)
    /\ emits' = IF thread # None THEN <<>> ELSE <<Emission("listening_ended", <<>>, 0)>>
    /\ Worker("stop", <<>>)
    /\ UNCHANGED <<audio_queue, thread, loops, signals, captured, finalized, handed, returned>>

\* the join returns, the thread ended or the timeout expired; stop() returns
StopReturn ==
    /\ joining
    /\ \/ ~Alive(loops[thread[1]])
       \/ OutlastsJoin(loops[thread[1]])
    /\ joining' = FALSE
    /\ emits' = <<Emission("listening_ended", <<>>, 0)>>
    /\ Worker("stop_return", <<Alive(loops[thread[1]])>>)
    /\ UNCHANGED <<is_running, stop_event, audio_queue, thread, loops, signals,
                   captured, finalized, handed, returned>>

\* sd.InputStream(...) opens
LoopOpen(i) ==
    /\ DeliveriesDone
    /\ i \in DOMAIN loops
    /\ loops[i].pc = "open"
    /\ loops' = [loops EXCEPT ![i].pc = "check"]
    /\ emits' = <<>>
    /\ Worker("loop_open", <<i>>)
    /\ UNCHANGED <<is_running, stop_event, audio_queue, thread, joining, signals,
                   captured, finalized, handed, returned>>

\* the stream raises, opening or open: the handler around the loop
StreamError(i) ==
    /\ DeliveriesDone
    /\ i \in DOMAIN loops
    /\ loops[i].pc \in {"open", "check", "get"}
    /\ loops' = [loops EXCEPT ![i] = Exit(@)]
    /\ emits' = <<Emission("error_occurred", "Audio stream error", i)>>
    /\ signals' = signals \o emits'
    /\ Worker("stream_error", <<i>>)
    /\ UNCHANGED <<is_running, stop_event, audio_queue, thread, joining,
                   captured, finalized, handed, returned>>

\* while not self._stop_event.is_set()
LoopCheckIgnoreStop(i) ==
    /\ DeliveriesDone
    /\ i \in DOMAIN loops
    /\ loops[i].pc = "check"
    /\ loops' = [loops EXCEPT ![i].pc = "get"]
    /\ emits' = <<>>
    /\ Worker("loop_check", <<i>>)
    /\ UNCHANGED <<is_running, stop_event, audio_queue, thread, joining, signals,
                   captured, finalized, handed, returned>>

LoopCheck(i) ==
    /\ DeliveriesDone
    /\ i \in DOMAIN loops
    /\ loops[i].pc = "check"
    /\ loops' = [loops EXCEPT ![i] = IF stop_event THEN Exit(@) ELSE [@ EXCEPT !.pc = "get"]]
    /\ emits' = <<>>
    /\ Worker("loop_check", <<i>>)
    /\ UNCHANGED <<is_running, stop_event, audio_queue, thread, joining, signals,
                   captured, finalized, handed, returned>>

\* self._audio_queue.get(timeout=0.5) and the body of the loop, up to the
\* call of recognize_google if the frame finalizes an utterance
LoopGet(i) ==
    /\ DeliveriesDone
    /\ i \in DOMAIN loops
    /\ loops[i].pc = "get"
    /\ IF audio_queue = <<>>
       THEN /\ loops' = [loops EXCEPT ![i].pc = "check"]
            /\ emits' = <<>>
            /\ Worker("loop_empty", <<i>>)
            /\ UNCHANGED <<audio_queue, signals, finalized, handed>>
       ELSE LET data == Head(audio_queue)
                l == loops[i]
                seen == [l EXCEPT !.processed = Append(@, data),
                                  !.onset = IF @ = 0 /\ data.rms > SilenceThreshold
                                            THEN Len(l.processed) + 1 ELSE @,
                                  !.pc = "check"]
                classified == Vad(seen, data)
                called == IF classified.pc = "finalize" THEN ProcessSpeech(classified) ELSE classified
                after == IF called.pc = "return" THEN ResetSegmenter(called) ELSE called
            IN  /\ audio_queue' = Tail(audio_queue)
                /\ emits' = LevelEmits(data, i)
                /\ signals' = signals \o emits'
                /\ loops' = [loops EXCEPT ![i] = after]
                /\ finalized' = IF classified.pc = "finalize"
                                THEN Append(finalized, classified.speech_buffer) ELSE finalized
                /\ handed' = IF called.pc = "transcribing"
                             THEN Append(handed, called.speech_buffer) ELSE handed
                /\ Worker("loop_frame", <<i, data>>)
    /\ UNCHANGED <<is_running, stop_event, thread, joining, captured, returned>>

\* recognize_google returns or raises; _process_speech returns
TranscribeReturn(i, outcome) ==
    /\ DeliveriesDone
    /\ i \in DOMAIN loops
    /\ loops[i].pc = "transcribing"
    /\ emits' = RecognitionEmits(outcome, i)
    /\ signals' = signals \o emits'
    /\ loops' = [loops EXCEPT ![i] = ResetSegmenter(@)]
    /\ returned' = returned + 1
    /\ Worker("transcribed", <<i, outcome>>)
    /\ UNCHANGED <<is_running, stop_event, audio_queue, thread, joining,
                   captured, finalized, handed>>

\* _audio_callback, called by an open stream
AudioCallbackUpTo(n, rms) ==
    /\ DeliveriesDone
    /\ captured < n
    /\ \E i \in DOMAIN loops : StreamOpen(loops[i])
    /\ audio_queue' = Append(audio_queue, Frame(captured + 1, rms))
    /\ captured' = captured + 1
    /\ emits' = <<>>
    /\ Worker("audio_callback", <<rms>>)
    /\ UNCHANGED <<is_running, stop_event, thread, loops, joining, signals,
                   finalized, handed, returned>>

AudioCallback(rms) == AudioCallbackUpTo(MaxFrames, rms)

\* The main thread's event loop delivers a queued emission to the slot that
\* _connect_signals connected to the signal, if any.
Deliver ==
    /\ ~joining
    /\ signals # <<>>
    /\ signals' = Tail(signals)
    /\ emits' = <<>>
    /\ LET e == Head(signals)
       IN  CASE e.signal = "audio_level_changed" ->
                    Slot("update_audio_level", <<e.arg>>, UpdateAudioLevel(Self, e.arg))
             [] e.signal = "text_recognized" ->
                    LET r == Process(e.arg, FALSE)
                    IN  Slot("text_recognized", <<r.kind, r.message>>,
                             OnTextRecognized(Self, e.arg, FALSE))
             [] OTHER -> Slot("no_slot", <<e.signal, e.arg>>, Self)
    /\ UNCHANGED <<is_running, stop_event, audio_queue, thread, loops, joining,
                   captured, finalized, handed, returned>>

\* A second passes on the worker's clock.
VoiceTick ==
    /\ DeliveriesDone
    /\ \E i \in DOMAIN loops :
          /\ loops[i].silence_start_time # None
          /\ loops[i].silence_start_time[1] <= SilenceDuration
    /\ loops' = [i \in DOMAIN loops |->
                   IF loops[i].silence_start_time = None THEN loops[i]
                   ELSE [loops[i] EXCEPT !.silence_start_time =
                            Some(Lesser(@[1] + 1, SilenceDuration + 1))]]
    /\ emits' = <<>>
    /\ Worker("voice_tick", <<>>)
    /\ UNCHANGED <<is_running, stop_event, audio_queue, thread, joining, signals,
                   captured, finalized, handed, returned>>

LoopStep(i) ==
    \/ LoopOpen(i)
    \/ LoopCheck(i)
    \/ LoopGet(i)
    \/ \E outcome \in Outcomes : TranscribeReturn(i, outcome)

\* AirVoiceOverlay() with its VoiceInputManager
InitVoice ==
    /\ Init
    /\ accessibility_mode = "NORMAL"

NextVoice ==
    \/ Start
    \/ StopCall
    \/ StopReturn
    \/ \E i \in Threads : LoopStep(i)
    \/ \E i \in Threads : StreamError(i)
    \/ \E rms \in FrameRms : AudioCallback(rms)
    \/ Deliver
    \/ VoiceTick

SpecVoice == InitVoice /\ [][NextVoice]_vars

\* The same with fewer frames, for the runs that never end.
\* start() in SpecStopFair, where the history since is not kept
StopStart == StartSince(MaxStarts, 0)

StopAudioCallback(rms) == AudioCallbackUpTo(MaxStopFrames, rms)

NextStop ==
    \/ StopStart
    \/ StopCall
    \/ StopReturn
    \/ \E i \in Threads : LoopStep(i)
    \/ \E i \in Threads : StreamError(i)
    \/ \E rms \in FrameRms : StopAudioCallback(rms)
    \/ Deliver
    \/ VoiceTick

\* Every started thread is scheduled again and again, every recognize_google
\* call returns or raises, and the main thread's event loop runs.  A thread's
\* step is written with the guard DeliveriesDone, which calls of stop() switch
\* on and off, so the thread's scheduling is strong fairness of its step.
SpecStopFair ==
    /\ InitVoice
    /\ [][NextStop]_vars
    /\ \A i \in Threads : SF_vars(LoopStep(i))
    /\ WF_vars(Deliver)

\* One session: start() once, then the capture loop runs on.
SessionStart == StartUpTo(1)
SessionAudioCallback(rms) == AudioCallbackUpTo(MaxSessionFrames, rms)

NextSession ==
    \/ SessionStart
    \/ \E i \in Threads : LoopStep(i)
    \/ \E rms \in FrameRms : SessionAudioCallback(rms)
    \/ Deliver
    \/ VoiceTick

SpecSession == InitVoice /\ [][NextSession]_vars

----
\* Properties

SetOps == {"set_idle", "set_listening", "set_processing", "set_action", "set_gesture",
           "set_keypad"}

TargetOf(name) ==
    CASE name = "set_idle" -> "IDLE"
      [] name = "set_listening" -> "LISTENING"
      [] name = "set_processing" -> "PROCESSING"
      [] name = "set_action" -> "ACTION"
      [] name = "set_gesture" -> "GESTURE"
      [] name = "set_keypad" -> "KEYPAD"

Registrations(k) == Cardinality({i \in 1..Len(listeners) : listeners[i] = k})

\* The last operation was a set_* whose target differed from the state it ran in.
ActualTransition == op.name \in SetOps /\ TargetOf(op.name) # op.from

\* C1: a set_* operation called while its target state is already the current
\* state invokes no listener and leaves state and previous_state unchanged.
C1_SameStateNoNotification ==
    [][(op'.name \in SetOps /\ TargetOf(op'.name) = state)
          => (calls' = <<>> /\ state' = state /\ previous_state' = previous_state)]_vars

\* C1 witness: set_idle ran in Idle with two listeners registered, after the
\* machine had been in Listening.
C1_Witness ==
    /\ op.name = "set_idle" /\ op.from = "IDLE"
    /\ Len(listeners) = 2 /\ previous_state = "LISTENING"

\* C2 as claimed: a set_* operation whose target equals the current state resets no
\* payload (set_action keeps action_data, set_listening keeps audio_level,
\* set_gesture keeps gesture_data, set_keypad keeps active_key).
C2_SameStateKeepsPayload ==
    [][/\ (op'.name = "set_action" /\ state = "ACTION") => action_data' = action_data
       /\ (op'.name = "set_listening" /\ state = "LISTENING") => audio_level' = audio_level
       /\ (op'.name = "set_gesture" /\ state = "GESTURE") => gesture_data' = gesture_data
       /\ (op'.name = "set_keypad" /\ state = "KEYPAD") => active_key' = active_key]_vars

\* C2 amended: a set_* operation whose target equals the current state notifies no
\* listener and leaves state, previous_state and the other states' payloads
\* unchanged, but its own payload is overwritten with the call's arguments.
C2_SameStateOverwritesOwnPayload ==
    [][(op'.name \in SetOps /\ TargetOf(op'.name) = state) =>
          /\ calls' = <<>> /\ state' = state /\ previous_state' = previous_state
          /\ action_data' = IF op'.name = "set_action"
                            THEN ActionData(op'.args[1], op'.args[2]) ELSE action_data
          /\ audio_level' = IF op'.name = "set_listening" THEN op'.args[1] ELSE audio_level
          /\ gesture_data' = IF op'.name = "set_gesture"
                             THEN GestureData(OrEmpty(op'.args[1]), op'.args[2], op'.args[3])
                             ELSE gesture_data
          /\ active_key' = IF op'.name = "set_keypad" THEN op'.args[1] ELSE active_key]_vars

\* C2 witness: set_action ran in Action and the toast now carries its arguments.
C2_Witness ==
    /\ op.name = "set_action" /\ op.from = "ACTION" /\ state = "ACTION"
    /\ op.args = <<<<"Opening", "Chrome...">>, Some("mic")>>
    /\ action_data = ActionData(<<"Opening", "Chrome...">>, Some("mic"))
    /\ Len(listeners) > 0 /\ calls = <<>>

\* C3: on a transition request whose target differs from the current state,
\* previous_state is the old state and state the target before any listener runs,
\* and every registered listener is invoked within the operation with
\* (old_state, new_state), in registration order.
C3_NotifyInOrderAfterAssignment ==
    ActualTransition =>
        /\ state = TargetOf(op.name)
        /\ previous_state = op.from
        /\ Len(calls) = Len(listeners)
        /\ \A i \in 1..Len(calls) :
              calls[i] = [listener |-> listeners[i], old |-> op.from,
                          new |-> TargetOf(op.name), state |-> TargetOf(op.name),
                          previous_state |-> op.from]

\* C3 witness: set_listening ran in Idle with two different listeners registered.
C3_Witness ==
    /\ op.name = "set_listening" /\ op.from = "IDLE"
    /\ listeners = <<"raising", "counting">>
    /\ Len(calls) = 2 /\ calls[1].listener = "raising" /\ calls[2].listener = "counting"

\* C4: a listener that raises never stops the listeners after it from being
\* invoked, never alters state or previous_state, and no exception leaves the
\* operation; after n transitions every registration has been invoked n times.
C4_RaisingListenerIsolated ==
    /\ ~escaped
    /\ \A k \in ListenerIds : ncalls[k] = ntrans * Registrations(k)
    /\ ActualTransition =>
          /\ state = TargetOf(op.name) /\ previous_state = op.from
          /\ \A i \in 1..Len(listeners) :
                i <= Len(calls) /\ calls[i].listener = listeners[i]

\* C4 witness: three transitions with a raising listener registered before a
\* counting one; the counting listener was called three times.
C4_Witness ==
    /\ listeners = <<"raising", "counting">>
    /\ ntrans = 3 /\ ncalls["counting"] = 3 /\ ncalls["raising"] = 3

\* C5 as claimed: the auto-hide timer is started whenever the state machine enters
\* Action, under every accessibility mode, so an auto-hide firing is pending
\* whenever the state is Action.
C5_AutoHidePendingWhileAction == state = "ACTION" => action_timer # {}

\* C6: when the auto-hide timer expires the state becomes Idle if the state is
\* Action; otherwise state, previous_state and every payload are unchanged and no
\* listener is notified.
C6_HideOnlyFromAction ==
    [][op'.name = "hide_action" =>
          IF state = "ACTION"
          THEN state' = "IDLE" /\ previous_state' = "ACTION"
          ELSE /\ state' = state /\ previous_state' = previous_state
               /\ action_data' = action_data /\ gesture_data' = gesture_data
               /\ active_key' = active_key /\ audio_level' = audio_level
               /\ calls' = <<>>]_vars

\* C6 witness: the auto-hide timer fired while the overlay was in Keypad.
C6_Witness ==
    /\ op.name = "hide_action" /\ op.from = "KEYPAD" /\ state = "KEYPAD"
    /\ action_data.message # <<>>

\* The last event called set_action.
CalledSetAction(o) ==
    \/ o.name = "show_action"
    \/ o.name = "text_recognized" /\ o.args[1] # "keypad"

\* C7 as claimed: set_action called while the state is already Action and the
\* auto-hide firing is still pending restarts the auto-hide window to a full
\* toast duration.
C7_ReentrantSetActionRestartsTimer ==
    [][(CalledSetAction(op') /\ state = "ACTION" /\ action_timer # {})
          => action_timer' = {ToastDisplayMs}]_vars

\* C8: the reset timer is started after every recognized command that is not a
\* keypad request, and its expiry moves the overlay to Listening whatever the
\* state was.
C8_ResetTimerStartedAndUnconditional ==
    /\ (op.name = "text_recognized" /\ op.args[1] # "keypad")
          => reset_timer = {ResetDelayMs}
    /\ op.name = "return_to_listening" => state = "LISTENING"

\* C8 witness: the reset timer expired while the overlay was in Keypad.
C8_Witness ==
    /\ op.name = "return_to_listening" /\ op.from = "KEYPAD" /\ state = "LISTENING"

\* C9 as claimed: each timer has at most one pending firing; an auto-hide never
\* fires earlier than one toast duration after the most recent entry into Action
\* from another state, and a reset never fires earlier than its delay after the
\* most recent start.
C9_OnePendingFiringNeverEarly ==
    /\ Cardinality(action_timer) <= 1
    /\ Cardinality(reset_timer) <= 1
    /\ op.name = "hide_action" => since_enter >= ToastDisplayMs
    /\ op.name = "return_to_listening" => since_reset >= reset_delay

\* C10: a recognized text the router answers with kind "keypad" moves the overlay
\* to Keypad without entering Action and without replacing action_data; any
\* other kind leaves the overlay in Action with the router's status message.
C10_KeypadBypassesAction ==
    [][op'.name = "text_recognized" =>
          IF op'.args[1] = "keypad"
          THEN /\ state' = "KEYPAD"
               /\ action_data' = action_data
               /\ \A i \in 1..Len(calls') : calls'[i].new # "ACTION"
          ELSE /\ state' = "ACTION"
               /\ action_data'.message = op'.args[2]]_vars

\* C10 witness: a keypad request was recognized while a toast was showing.
C10_Witness ==
    /\ op.name = "text_recognized" /\ op.args[1] = "keypad"
    /\ op.from = "ACTION" /\ state = "KEYPAD"
    /\ action_data.message = <<"Heard:", "hello">>

----
\* The segmenter

Silent(l) == ~l.is_speaking
Loud(data) == data.rms > SilenceThreshold
LastFrame(l) == l.processed[Len(l.processed)]
SinceOnset(l) == SubSeq(l.processed, l.onset, Len(l.processed))

\* the last step was loop i classifying a frame
Classified(o, i) == o.name = "loop_frame" /\ o.args[1] = i

\* C11: a frame above the silence threshold that loop i classifies while its
\* segmenter is Silent makes the segmenter Speaking with no silence timer and
\* with that frame as the one element of the speech buffer.
C11_OnsetStartsBuffer ==
    [][\A i \in DOMAIN loops :
          (Classified(op', i) /\ Loud(op'.args[2]) /\ Silent(loops[i]))
          => /\ loops'[i].is_speaking
             /\ loops'[i].silence_start_time = None
             /\ loops'[i].speech_buffer = <<op'.args[2]>>]_vars

\* an onset after the loop has already classified a silent frame
C11_Witness ==
    \E i \in DOMAIN loops :
        /\ Classified(op, i)
        /\ Loud(op.args[2])
        /\ loops[i].speech_buffer = <<op.args[2]>>
        /\ Len(loops[i].processed) > 1

\* the last step was loop i classifying a silent frame while Speaking with
\* the silence timer running
SilentFrameOnTimer(i) ==
    /\ Classified(op', i)
    /\ ~Loud(op'.args[2])
    /\ loops[i].is_speaking
    /\ loops[i].silence_start_time # None

\* C12 as stated: a silent frame classified while Speaking, with the silence
\* timer running and the elapsed silence greater than or equal to the
\* trailing-silence duration, finalizes the utterance.
C12_FinalizesAtDuration ==
    [][\A i \in DOMAIN loops :
          (SilentFrameOnTimer(i) /\ loops[i].silence_start_time[1] >= SilenceDuration)
          => finalized' = Append(finalized, Append(loops[i].speech_buffer, op'.args[2]))]_vars

\* C12 amended: a silent frame classified while Speaking with the silence
\* timer running finalizes exactly when the time elapsed since the timer was
\* started is strictly greater than the trailing-silence duration; then one
\* utterance is emitted, holding every frame from the onset through that
\* frame in order, and when its transcription call returns the segmenter is
\* Silent with an empty buffer and no silence timer.
C12_FinalizesPastDuration ==
    [][\A i \in DOMAIN loops :
          /\ SilentFrameOnTimer(i)
             => IF loops[i].silence_start_time[1] > SilenceDuration
                THEN /\ finalized' = Append(finalized, Append(loops[i].speech_buffer, op'.args[2]))
                     /\ finalized'[Len(finalized')] = SinceOnset(loops'[i])
                ELSE /\ finalized' = finalized
                     /\ loops'[i].is_speaking
          /\ (op'.name = "transcribed" /\ op'.args[1] = i)
             => /\ Silent(loops'[i])
                /\ loops'[i].speech_buffer = <<>>
                /\ loops'[i].silence_start_time = None]_vars

\* a second utterance has just been finalized by a silent frame
C12_Witness ==
    \E i \in DOMAIN loops :
        /\ Classified(op, i)
        /\ ~Loud(op.args[2])
        /\ loops[i].pc = "transcribing"
        /\ Len(finalized) = 2
        /\ finalized[2] = loops[i].speech_buffer

\* C13: in every reachable state the silence timer of a segmenter is set
\* only if the segmenter is Speaking and the frame it classified last was at
\* or below the threshold; after a frame above the threshold is classified
\* the timer is unset.
C13_TimerOnlyInTrailingSilence ==
    \A i \in DOMAIN loops :
        /\ loops[i].silence_start_time # None
           => /\ loops[i].is_speaking
              /\ loops[i].processed # <<>>
              /\ ~Loud(LastFrame(loops[i]))
        /\ (Classified(op, i) /\ Loud(op.args[2]))
           => loops[i].silence_start_time = None

\* speech resumes: a loud frame classified right after a silent one while Speaking
C13_Witness ==
    \E i \in DOMAIN loops :
        /\ Classified(op, i)
        /\ Loud(op.args[2])
        /\ Len(loops[i].speech_buffer) >= 3
        /\ ~Loud(loops[i].processed[Len(loops[i].processed) - 1])

\* C14: in every reachable state the speech buffer of a segmenter is empty
\* exactly when it is Silent, and while Speaking it is the sequence of the
\* frames classified since the onset; every utterance finalized is non-empty
\* and starts with a frame above the threshold.
C14_BufferIsFramesSinceOnset ==
    /\ \A i \in DOMAIN loops :
          /\ (loops[i].speech_buffer = <<>>) <=> Silent(loops[i])
          /\ loops[i].is_speaking
             => /\ loops[i].onset > 0
                /\ Loud(loops[i].processed[loops[i].onset])
                /\ loops[i].speech_buffer = SinceOnset(loops[i])
    /\ \A k \in DOMAIN finalized :
          /\ finalized[k] # <<>>
          /\ Loud(finalized[k][1])

\* after a first utterance, a second speech holds loud and silent frames
C14_Witness ==
    \E i \in DOMAIN loops :
        /\ Len(finalized) = 1
        /\ loops[i].is_speaking
        /\ Len(loops[i].speech_buffer) >= 2
        /\ ~Loud(loops[i].speech_buffer[2])
        /\ loops[i].onset > 1

----
\* The capture loop and the transcription call

\* C15: while the transcription call for an utterance of loop i is in
\* progress, loop i still takes the frames that are queued: whenever a frame is
\* in the queue, the loop's step that dequeues and classifies it can be taken.
C15_FramesNeverWaitForTranscription ==
    \A i \in DOMAIN loops :
        (loops[i].pc = "transcribing" /\ audio_queue # <<>>) => ENABLED LoopGet(i)

\* stop() has returned and start() has not been called since
Stopped == stop_event /\ ~joining

\* C16: once stop() has returned, no capture thread emits audio_level_changed,
\* text_recognized or error_occurred.
C16_NoWorkerEventAfterStop ==
    Stopped => \A k \in DOMAIN emits :
                  ~(emits[k].by # 0 /\ emits[k].signal \in WorkerSignals)

\* C17: once the stop signal is set, every capture loop has eventually ended,
\* unless start() clears the signal first; and the loop check that finds the
\* signal set ends the loop and leaves the queue as it is.
C17_StopEndsLoop ==
    /\ stop_event ~> (~stop_event \/ \A i \in DOMAIN loops : ~Alive(loops[i]))
    /\ [][\A i \in Threads :
             (stop_event /\ op'.name = "loop_check" /\ op'.args[1] = i)
             => (~Alive(loops'[i]) /\ audio_queue' = audio_queue)]_vars

\* a loop has ended at its check with the stop signal set and frames still queued
C17_Witness ==
    /\ op.name = "loop_check"
    /\ stop_event
    /\ ~Alive(loops[op.args[1]])
    /\ audio_queue # <<>>

Transcribing == {i \in DOMAIN loops : loops[i].pc = "transcribing"}

\* C18: the utterances given to the transcription client are the utterances
\* finalized, each once and in the order of finalization, every call made has
\* returned or is in progress, and a text_recognized event is emitted exactly
\* by the return of a call with a non-empty text, once.
C18_EveryUtteranceTranscribedOnce ==
    /\ handed = finalized
    /\ Len(handed) = returned + Cardinality(Transcribing)
    /\ (op.name = "transcribed" /\ op.args[2] = "text")
       => emits = <<Emission("text_recognized", RecognizedText, op.args[1])>>
    /\ \A k \in DOMAIN emits :
          emits[k].signal = "text_recognized"
          => (op.name = "transcribed" /\ op.args[2] = "text")

\* the second of two utterances has been transcribed to a text
C18_Witness ==
    /\ op.name = "transcribed"
    /\ op.args[2] = "text"
    /\ Len(handed) = 2
    /\ handed[1] # handed[2]
    /\ returned = 2

\* C19: the return of a transcription call emits one text_recognized and no
\* error for a non-empty text, nothing at all for an empty text or an
\* unrecognizable utterance (nothing is queued for the overlay and the overlay
\* is unchanged), and exactly one error_occurred for a service error; in every
\* case the loop is back at its loop check with the segmenter Silent, the
\* buffer empty and no silence timer.
C19_OneOutcomePerUtterance ==
    [][op'.name = "transcribed"
       => LET i == op'.args[1]
              outcome == op'.args[2]
          IN  /\ outcome = "text"
                 => emits' = <<Emission("text_recognized", RecognizedText, i)>>
              /\ outcome \in {"empty", "unknown"}
                 => /\ emits' = <<>>
                    /\ signals' = signals
                    /\ UNCHANGED <<smvars, appvars>>
              /\ outcome \in {"request_error", "error"}
                 => /\ Len(emits') = 1
                    /\ emits'[1].signal = "error_occurred"
              /\ loops'[i].pc = "check"
              /\ Silent(loops'[i])
              /\ loops'[i].speech_buffer = <<>>
              /\ loops'[i].silence_start_time = None]_vars

\* after a first utterance the loop has gone on to a second, whose
\* transcription call ends in a service error
C19_Witness ==
    /\ op.name = "transcribed"
    /\ op.args[2] = "request_error"
    /\ returned = 2
    /\ \E k \in DOMAIN signals : signals[k].signal = "error_occurred"

\* C20: when the audio stream fails the capture loop ends with exactly one
\* error_occurred emitted, and once that event has reached the main thread
\* the overlay is Idle.
C20_StreamErrorIdlesOverlay ==
    /\ op.name = "stream_error"
       => /\ ~Alive(loops[op.args[1]])
          /\ Len(emits) = 1
          /\ emits[1].signal = "error_occurred"
    /\ (op.name = "no_slot" /\ op.args = <<"error_occurred", "Audio stream error">>)
       => state = "IDLE"

----
\* The payloads of the state machine

Clamp(x, lo, hi) == IF x < lo THEN lo ELSE IF x > hi THEN hi ELSE x

\* C21: after update_audio_level(x), called in any state, the stored
\* audio_level is x clamped to [0, 1].
C21_UpdateStoresClampedLevel ==
    op.name = "update_audio_level" => audio_level = Clamp(op.args[1], 0, LevelOne)

\* a negative level given outside Listening is stored as 0
C21_Witness ==
    /\ op.name = "update_audio_level"
    /\ op.args[1] < 0
    /\ op.from # "LISTENING"
    /\ audio_level = 0

\* C22: in every reachable state the stored audio_level lies in [0, 1].
C22_LevelAlwaysInRange == 0 <= audio_level /\ audio_level <= LevelOne

UpdateOps == {"update_audio_level", "update_gesture", "update_keypad"}

\* C23: update_audio_level, update_gesture and update_keypad, called in any state,
\* leave state and previous_state unchanged and invoke no listener, and
\* update_keypad(k) stores k as the active key; so set_keypad() followed by
\* update_keypad(k) and update_keypad(None) notifies once, on entering Keypad.
C23_UpdatesNeverTransition ==
    [][op'.name \in UpdateOps =>
          /\ state' = state /\ previous_state' = previous_state
          /\ calls' = <<>> /\ ntrans' = ntrans /\ ncalls' = ncalls
          /\ op'.name = "update_keypad" => active_key' = op'.args[1]]_vars

\* C23 witness: with one counting listener registered in Idle, the machine moved
\* once, into Keypad, the listener ran once, and update_keypad(None) has just
\* cleared the active key.
C23_Witness ==
    /\ op.name = "update_keypad" /\ op.args = <<None>> /\ op.from = "KEYPAD"
    /\ state = "KEYPAD" /\ previous_state = "IDLE" /\ active_key = None
    /\ listeners = <<"counting">> /\ ntrans = 1 /\ ncalls["counting"] = 1

----
\* The listener list

Occurrences(s, k) == Cardinality({i \in 1..Len(s) : s[i] = k})

Without(s, i) == SubSeq(s, 1, i - 1) \o SubSeq(s, i + 1, Len(s))

\* C24: on an actual transition a callback registered k times is invoked exactly
\* k times; remove_listener(cb) deletes exactly one registration of cb and keeps
\* the others in their order, and changes nothing when cb is not registered.
C24_OneCallPerRegistration ==
    [][/\ (op'.name \in SetOps /\ TargetOf(op'.name) # state) =>
             \A k \in ListenerIds : CallsOf(calls', k) = Occurrences(listeners, k)
       /\ op'.name = "remove_listener" =>
             /\ IF Occurrences(listeners, op'.args[1]) = 0
                THEN listeners' = listeners
                ELSE \E i \in 1..Len(listeners) :
                        listeners[i] = op'.args[1] /\ listeners' = Without(listeners, i)
             /\ calls' = <<>>
             /\ UNCHANGED <<state, previous_state, action_data, gesture_data, active_key,
                            audio_level, keypad_rows>>]_vars

\* C24 witness: a transition ran with one callback registered twice around
\* another one, and the callback registered twice was invoked twice.
C24_Witness ==
    /\ ActualTransition
    /\ listeners = <<"counting", "raising", "counting">>
    /\ CallsOf(calls, "counting") = 2 /\ CallsOf(calls, "raising") = 1

----
\* The keypad layout

\* C25: in every reachable state the keypad layout has exactly 5 rows, and no
\* step changes the layout.
C25_LayoutHasFiveRows ==
    /\ [](Len(keypad_rows) = 5)
    /\ [][keypad_rows' = keypad_rows]_vars

----
\* The payloads across transitions

\* C26: every set_* operation ends in its target state and writes the payload of
\* that state only: set_action(m, i) stores message m and icon i (no icon when i
\* is omitted) and leaves gesture_data, keypad_data and audio_level as they were,
\* and likewise for set_listening, set_gesture and set_keypad; set_idle and
\* set_processing write no payload.
C26_SetWritesOwnPayloadOnly ==
    [][op'.name \in SetOps =>
          /\ state' = TargetOf(op'.name)
          /\ action_data' = IF op'.name = "set_action"
                            THEN ActionData(op'.args[1], op'.args[2]) ELSE action_data
          /\ audio_level' = IF op'.name = "set_listening" THEN op'.args[1] ELSE audio_level
          /\ gesture_data' = IF op'.name = "set_gesture"
                             THEN GestureData(OrEmpty(op'.args[1]), op'.args[2], op'.args[3])
                             ELSE gesture_data
          /\ active_key' = IF op'.name = "set_keypad" THEN op'.args[1] ELSE active_key
          /\ keypad_rows' = keypad_rows]_vars

\* C26 witness: set_action("Done") without an icon ran outside Action; the toast
\* has no icon, and the payloads stored earlier by set_gesture, set_keypad and
\* set_listening are still there.
C26_Witness ==
    /\ op.name = "set_action" /\ op.args = <<<<"Done">>, None>> /\ op.from # "ACTION"
    /\ state = "ACTION" /\ action_data = ActionData(<<"Done">>, None)
    /\ gesture_data = GestureData(<<"p1">>, Some(1), Some("a"))
    /\ active_key = Some("a") /\ audio_level = 15

\* C27: update_gesture assigns each field of gesture_data for which a value was
\* given and leaves the other fields as they were; it constructs no new
\* GestureData, makes no transition and invokes no listener.
C27_UpdateGestureWritesGivenFields ==
    [][op'.name = "update_gesture" =>
          /\ gesture_data' =
                GestureData(IF op'.args[1] # None THEN op'.args[1][1]
                                                  ELSE gesture_data.hand_landmarks,
                            IF op'.args[2] # None THEN op'.args[2]
                                                  ELSE gesture_data.active_finger,
                            IF op'.args[3] # None THEN op'.args[3]
                                                  ELSE gesture_data.hover_key)
          /\ built' = <<>>
          /\ state' = state /\ previous_state' = previous_state /\ calls' = <<>>]_vars

\* C27 witness: update_gesture(hover_key = "b") ran on the record stored by
\* set_gesture(["p1"], 1, "a"); landmarks and finger are kept.
C27_Witness ==
    /\ op.name = "update_gesture" /\ op.args = <<None, None, Some("b")>>
    /\ gesture_data = GestureData(<<"p1">>, Some(1), Some("b"))

----
\* The loudness level of a frame

\* C28: every frame a capture loop dequeues makes the loop emit exactly one
\* audio_level_changed, carrying the level of that frame, whatever the segmenter
\* decides for the frame and whether it was Silent or Speaking; no other step
\* emits audio_level_changed.
C28_OneLevelPerFrame ==
    /\ op.name = "loop_frame" =>
          emits = <<Emission("audio_level_changed", LevelOf(op.args[2]), op.args[1])>>
    /\ op.name # "loop_frame" =>
          \A k \in DOMAIN emits : emits[k].signal # "audio_level_changed"

\* C28 witness: a frame at the threshold was dequeued while Speaking, the silence
\* timer runs, and the level of the frame was emitted.
C28_Witness ==
    \E i \in DOMAIN loops :
        /\ Classified(op, i) /\ ~Loud(op.args[2])
        /\ loops[i].is_speaking /\ loops[i].silence_start_time # None
        /\ Len(emits) = 1 /\ emits[1].signal = "audio_level_changed"

\* C29: the level a capture loop reports for a frame is the RMS of the frame
\* times the gain, clamped to [0, 1]; so every reported level is in [0, 1].
C29_LevelIsClampedScaledRms ==
    \A k \in DOMAIN emits :
        emits[k].signal = "audio_level_changed" =>
            /\ emits[k].arg =
                  Clamp((op.args[2].rms * LevelGain * LevelOne) \div RmsOne, 0, LevelOne)
            /\ 0 <= emits[k].arg /\ emits[k].arg <= LevelOne

----
\* Capture loops

\* the capture loops that have passed the test of the stop event and are at
\* audio_queue.get
Consuming == {i \in DOMAIN loops : loops[i].pc = "get"}

\* C30: whatever start() and stop() calls were made, at most one capture loop is
\* taking frames from the audio queue.
C30_OneLoopConsumes == Cardinality(Consuming) <= 1

----
\* The reset timer and the keypad

\* C31: the overlay leaves Keypad only through an event that occurred after it
\* entered Keypad; the reset timer can be pending in Keypad only if it was
\* started before the overlay entered Keypad (every handler that starts it leaves
\* Keypad), so its firing never moves the overlay out of Keypad.
C31_ResetTimerSparesKeypad ==
    [][(op'.name = "return_to_listening" /\ state = "KEYPAD") => state' = "KEYPAD"]_vars

----
\* Listeners that call the state machine from their callback

\* the invocations of listener k by the last operation, in order
CallsTo(k) == SelectSeq(calls, LAMBDA c : c.listener = k)

\* C32: every listener is notified of the transitions in the order in which they
\* occurred: of two successive notifications of a callback the later one is for
\* the same transition (the callback is registered twice) or starts from the
\* state the earlier one ended in; and when a listener is invoked with (old, new) the state is new and
\* previous_state is old, also when an earlier listener has requested a further
\* transition from its callback.
C32_NotifiedInTransitionOrder ==
    /\ \A j \in DOMAIN calls :
          calls[j].state = calls[j].new /\ calls[j].previous_state = calls[j].old
    /\ \A k \in ReentrantIds \cup ListenerIds :
          \A j \in 1..(Len(CallsTo(k)) - 1) :
              \/ CallsTo(k)[j].new = CallsTo(k)[j + 1].old
              \/ /\ CallsTo(k)[j].old = CallsTo(k)[j + 1].old
                 /\ CallsTo(k)[j].new = CallsTo(k)[j + 1].new

\* C33: on an actual transition every callback that was registered when the
\* transition began, and none of whose registrations was removed during the
\* notification, is invoked for that transition once per registration, also
\* when a listener calls remove_listener or add_listener from its callback.
C33_SurvivorsNotifiedOnce ==
    [][(op'.name \in SetOps /\ TargetOf(op'.name) # state) =>
          \A k \in ReentrantIds \cup ListenerIds :
              (Occurrences(listeners, k) > 0
                  /\ Occurrences(listeners', k) >= Occurrences(listeners, k))
              => Cardinality({j \in DOMAIN calls' :
                                 /\ calls'[j].listener = k
                                 /\ calls'[j].old = state
                                 /\ calls'[j].new = TargetOf(op'.name)})
                     = Occurrences(listeners, k)]_vars

----
\* The running flag

\* C34: the running flag is set only while a capture loop is alive, so that a
\* start() made after the loop ended on a stream error launches a new loop and
\* does not return without doing anything.
C34_RunningMeansLiveLoop ==
    /\ is_running => \E i \in DOMAIN loops : Alive(loops[i])
    /\ (op.name = "start" /\ op.args = <<FALSE>>) => \E i \in DOMAIN loops : Alive(loops[i])

----
\* start() after stop()

\* C35: a capture loop begins Silent with an empty buffer, and it classifies no
\* frame that was in the queue at the start() that launched it: the loop started
\* after a stop() processes only frames captured after the restart.
C35_RestartSeesOnlyNewFrames ==
    \A i \in DOMAIN loops :
        /\ loops[i].pc = "open" => (Silent(loops[i]) /\ loops[i].speech_buffer = <<>>)
        /\ \A j \in DOMAIN loops[i].processed : loops[i].processed[j].id > loops[i].since

----
\* After a command

\* the last step was the arrival of a command that is not a keypad request,
\* the n-th arrival
CommandArrived(n) ==
    op.name = "text_recognized" /\ op.args[1] # "keypad" /\ ntrans = n

----
\* previous_state

\* C37: state and previous_state are both Idle at first and until the first
\* actual transition; every step that changes the state leaves in
\* previous_state the state it changed, a different one, and every other step
\* leaves previous_state alone: after a transition previous_state is the state
\* that was current just before the most recent one and differs from state.
C37_PreviousIsStateBeforeLastTransition ==
    /\ state = "IDLE" /\ previous_state = "IDLE"
    /\ [][IF state' # state
          THEN previous_state' = state /\ previous_state' # state'
          ELSE previous_state' = previous_state]_vars
    /\ [](previous_state = state => state = "IDLE")

\* C37 witness: after the transitions Idle to Listening and Listening to Action,
\* set_action ran again in Action and changed nothing.
C37_Witness ==
    /\ op.name = "set_action" /\ op.from = "ACTION"
    /\ state = "ACTION" /\ previous_state = "LISTENING" /\ ntrans = 2

====
